---- MODULE Spec2Model ----
(***************************************************************************)
(* Model of the rten SIMD dispatch engine (rten-simd/src/dispatch.rs) and  *)
(* of the three-pass softmax kernel built on it                            *)
(* (rten-vecmath/src/softmax.rs).                                          *)
(*                                                                         *)
(* One behaviour is one call of SimdDispatcher::dispatch(op) on one        *)
(* platform: the dispatch ladder picks a vector type, the operation's      *)
(* generic body runs group by group, and the call returns.                 *)
(*                                                                         *)
(* f32 values are modelled as extended rationals <<kind, num, den>>:       *)
(* finite values are exact fractions in lowest terms, and the IEEE-754     *)
(* special values -inf, +inf and NaN are kept because the kernel's seed    *)
(* (f32::MIN) and its division by the exp sum meet them.  Rounding of      *)
(* finite results is not modelled.                                         *)
(***************************************************************************)
EXTENDS Integers, Sequences, FiniteSets, TLC

(***************************************************************************)
(* Bounds of the model.                                                    *)
(***************************************************************************)
\* longest input slice
MaxN == 17
\* largest finite input value used as the peak of an input
PeakVal == 2

(***************************************************************************)
(* f32 values.                                                             *)
(***************************************************************************)
Abs(a) == IF a < 0 THEN -a ELSE a

RECURSIVE GCD(_, _)
GCD(a, b) == IF b = 0 THEN a ELSE GCD(b, a % b)

\* the finite value n/d (d > 0), in lowest terms
Fin(n, d) ==
    LET g == GCD(Abs(n), d) IN <<"fin", n \div g, d \div g>>

PInf == <<"pinf", 0, 1>>
NInf == <<"ninf", 0, 1>>
NaN == <<"nan", 0, 1>>
\* a destination element that has not been written yet (MaybeUninit<f32>)
Uninit == <<"uninit", 0, 1>>

Int2F(i) == <<"fin", i, 1>>
zero == Int2F(0)
one == Int2F(1)

\* magnitude of f32::MIN, the most negative finite f32
F32MaxMag == 8
F32_MIN == Int2F(-F32MaxMag)

IsFin(a) == a[1] = "fin"
Sign(a) ==
    CASE a[1] = "pinf" -> 1
      [] a[1] = "ninf" -> -1
      [] a[1] = "fin" -> (IF a[2] > 0 THEN 1 ELSE IF a[2] < 0 THEN -1 ELSE 0)
      [] OTHER -> 0

\* a < b on non-NaN values
FLess(a, b) ==
    CASE a[1] = "nan" \/ b[1] = "nan" -> FALSE
      [] a[1] = "ninf" -> b[1] # "ninf"
      [] a[1] = "pinf" -> FALSE
      [] b[1] = "ninf" -> FALSE
      [] b[1] = "pinf" -> TRUE
      [] OTHER -> a[2] * b[3] < b[2] * a[3]

FAdd(a, b) ==
    CASE a[1] = "nan" \/ b[1] = "nan" -> NaN
      [] a[1] = "fin" /\ b[1] = "fin" -> Fin(a[2] * b[3] + b[2] * a[3], a[3] * b[3])
      [] a[1] = "fin" -> b
      [] b[1] = "fin" -> a
      [] a[1] = b[1] -> a
      [] OTHER -> NaN

FNeg(a) ==
    CASE a[1] = "fin" -> <<"fin", -a[2], a[3]>>
      [] a[1] = "pinf" -> NInf
      [] a[1] = "ninf" -> PInf
      [] OTHER -> NaN

FSub(a, b) == FAdd(a, FNeg(b))

FMul(a, b) ==
    CASE a[1] = "nan" \/ b[1] = "nan" -> NaN
      [] a[1] = "fin" /\ b[1] = "fin" -> Fin(a[2] * b[2], a[3] * b[3])
      [] Sign(a) * Sign(b) > 0 -> PInf
      [] Sign(a) * Sign(b) < 0 -> NInf
      [] OTHER -> NaN

\* a / b with IEEE-754 results for zero and infinite operands
FDiv(a, b) ==
    CASE a[1] = "nan" \/ b[1] = "nan" -> NaN
      [] a[1] = "fin" /\ b[1] = "fin" ->
            IF b[2] # 0
            THEN (IF b[2] > 0 THEN Fin(a[2] * b[3], a[3] * b[2])
                  ELSE Fin(-(a[2] * b[3]), a[3] * (-b[2])))
            ELSE (IF a[2] > 0 THEN PInf ELSE IF a[2] < 0 THEN NInf ELSE NaN)
      [] a[1] = "fin" -> zero
      [] b[1] = "fin" -> (IF Sign(a) * (IF Sign(b) < 0 THEN -1 ELSE 1) > 0 THEN PInf ELSE NInf)
      [] OTHER -> NaN

\* f32::max: the larger operand; a NaN operand is ignored
FMax(a, b) ==
    CASE a[1] = "nan" -> b
      [] b[1] = "nan" -> a
      [] OTHER -> IF FLess(a, b) THEN b ELSE a

\* arguments beyond which exp overflows to +inf / underflows to 0
ExpOverflowArg == 4
ExpUnderflowArg == 6
ExpBase == 2

RECURSIVE Pow(_, _)
Pow(b, k) == IF k = 0 THEN 1 ELSE b * Pow(b, k - 1)

\* Exp::apply on one lane: a positive, strictly increasing function with
\* Exp(0) = 1, Exp(-inf) = 0, overflow to +inf and underflow to 0
Exp(a) ==
    CASE a[1] = "nan" -> NaN
      [] a[1] = "pinf" -> PInf
      [] a[1] = "ninf" -> zero
      [] OTHER ->
            LET k == a[2] \div a[3] IN
            IF k > ExpOverflowArg THEN PInf
            ELSE IF k < -ExpUnderflowArg THEN zero
            ELSE IF k >= 0 THEN Int2F(Pow(ExpBase, k))
            ELSE Fin(1, Pow(ExpBase, -k))

(***************************************************************************)
(* Lane vectors (SimdFloat) and masks (SimdMask).                          *)
(***************************************************************************)
VTypes == {"__m512", "__m256", "v128f", "float32x4_t", "f32"}

\* S::LEN
LEN(S) ==
    CASE S = "__m512" -> 16
      [] S = "__m256" -> 8
      [] S = "v128f" -> 4
      [] S = "float32x4_t" -> 4
      [] OTHER -> 1

splat(S, v) == [j \in 1..LEN(S) |-> v]
vzero(S) == splat(S, zero)
vone(S) == splat(S, one)

vadd(a, b) == [j \in DOMAIN a |-> FAdd(a[j], b[j])]
vsub(a, b) == [j \in DOMAIN a |-> FSub(a[j], b[j])]
vmul(a, b) == [j \in DOMAIN a |-> FMul(a[j], b[j])]
vdiv(a, b) == [j \in DOMAIN a |-> FDiv(a[j], b[j])]
vmax(a, b) == [j \in DOMAIN a |-> FMax(a[j], b[j])]
vexp(a) == [j \in DOMAIN a |-> Exp(a[j])]

\* S::Mask::first_n(n): true in the first n lanes
first_n(S, n) == [j \in 1..LEN(S) |-> j <= n]

\* a.blend(b, mask): lane of b where the mask is set, lane of a elsewhere
blend(a, b, mask) == [j \in DOMAIN a |-> IF mask[j] THEN b[j] ELSE a[j]]

\* the scalar closures handed to fold_splat: |max, x| max.max(x) and
\* |sum, x| sum + x
Combine(f, a, b) == IF f = "max" THEN FMax(a, b) ELSE FAdd(a, b)

RECURSIVE FoldLanes(_, _, _, _)
FoldLanes(v, j, acc, f) ==
    IF j > Len(v) THEN acc ELSE FoldLanes(v, j + 1, Combine(f, acc, v[j]), f)

\* v.fold_splat(seed, f): reduce the lanes from lane 0 upwards and
\* broadcast the result to every lane
fold_splat(v, seed, f) ==
    LET r == FoldLanes(v, 1, seed, f) IN [j \in DOMAIN v |-> r]

(***************************************************************************)
(* Platform: target architecture, build configuration, running CPU.        *)
(***************************************************************************)
Archs == {"x86_64", "aarch64", "wasm32", "riscv64"}
CpuFeatures == {"avx512f", "avx512vl", "avx2", "fma"}

\* crate::is_avx512_supported(): the runtime probe for the AVX-512 path
is_avx512_supported(features) == {"avx512f", "avx512vl"} \subseteq features

\* is_x86_feature_detected!(name)
is_x86_feature_detected(features, name) == name \in features

(***************************************************************************)
(* Chunked access to slices (rten_simd::functional, rten_simd::span).      *)
(* Offsets are 0-based as in the code; sequences are 1-based.              *)
(***************************************************************************)
\* S::load(ptr + pos): LEN consecutive elements
load(xs, pos, S) == [j \in 1..LEN(S) |-> xs[pos + j]]

\* partial load of the first r elements; the other lanes get padv's lanes
load_partial(xs, pos, S, r, padv) ==
    [j \in 1..LEN(S) |-> IF j <= r THEN xs[pos + j] ELSE padv[j]]

\* y.store(ptr + pos) for cnt = LEN, y.store_partial(ptr + pos, cnt) else
store(ys, pos, y, cnt) ==
    [i \in DOMAIN ys |-> IF pos < i /\ i <= pos + cnt THEN y[i - pos] ELSE ys[i]]

\* the 0-based positions a store of cnt lanes at pos writes, in order
StorePositions(at, cnt) == [j \in 1..cnt |-> at + j - 1]

Range(f) == {f[i] : i \in DOMAIN f}

(***************************************************************************)
(* State.                                                                  *)
(***************************************************************************)
VARIABLES
    arch,                    \* cfg(target_arch)
    feature_avx512,          \* cfg(feature = "avx512")
    target_feature_simd128,  \* cfg(target_feature = "simd128")
    cpu,                     \* instruction-set features of the running CPU
    op,                      \* the operation: "Softmax" or "SimdMapOp"
    unary,                   \* the SimdUnaryOp a SimdMapOp wraps
    input,                   \* the source slice as the caller passed it
    in_place,                \* SrcDest built from one mutable slice
    pad,                     \* value simd_map's partial load puts in unused lanes
    dest,                    \* the destination slice
    pc,                      \* position in dispatch / eval
    site,                    \* the ladder entry that called eval
    S,                       \* vector type eval was instantiated with
    eval_count,              \* number of op.eval invocations
    eval_types,              \* vector types eval was invoked for
    output,                  \* value eval returned
    result,                  \* value dispatch returned
    pos,                     \* offset of the next group in the running pass
    accum,                   \* simd_fold's accumulator
    max_val,
    prev_exp_sum,
    exp_sum,
    inv_exp_sum,
    calls,                   \* per pass: invocations of the element function
    writes,                  \* per pass: destination positions stored, in order
    reads,                   \* per pass: source positions loaded
    hazard,                  \* a group loaded a position stored earlier in its pass
    first_n_calls            \* arguments of the first_n calls made by Softmax::eval

cfgvars == <<arch, feature_avx512, target_feature_simd128, cpu>>
opvars == <<op, unary, input, in_place, pad>>
ctlvars == <<pc, site, S, eval_count, eval_types, output, result>>
locvars == <<pos, accum, max_val, prev_exp_sum, exp_sum, inv_exp_sum>>
logvars == <<calls, writes, reads, hazard, first_n_calls>>

\* State of a Normalizer::normalize call (rten-text).
VARIABLES
    text,                    \* the &str passed to normalize
    normalizer,              \* the normalizer normalize is called on
    tpc,                     \* position in normalize, or how it ended
    normalized,              \* the normalized string
    offsets,                 \* the offset map
    stage,                   \* Sequence::normalize: index of the next normalizer
    stage_log                \* Sequence::normalize: what each stage returned

textvars == <<text, normalizer, tpc, normalized, offsets, stage, stage_log>>
kernelvars == <<cfgvars, opvars, ctlvars, locvars, logvars, dest>>
vars == <<kernelvars, textvars>>

Passes == {"max", "exp", "norm", "map"}
NoLog == [p \in Passes |-> <<>>]
NoCalls == [p \in Passes |-> 0]

n == Len(input)

\* SrcDest::src(): the slice a pass reads
src == IF in_place THEN dest ELSE input

(***************************************************************************)
(* Inputs.                                                                 *)
(***************************************************************************)
Pattern(s, i) ==
    CASE s = "zero" -> zero
      [] s = "cyc" -> Int2F((i % 3) - 1)
      [] OTHER -> NInf

\* a slice of length len following pattern s, with value v at position p
MakeInput(len, s, p, v) == [i \in 1..len |-> IF i = p THEN v ELSE Pattern(s, i)]

RECURSIVE SeqsUpTo(_, _)
SeqsUpTo(V, k) ==
    IF k = 0 THEN {<<>>}
    ELSE LET T == SeqsUpTo(V, k - 1) IN
         T \cup {Append(t, v) : t \in {u \in T : Len(u) = k - 1}, v \in V}

\* every slice of up to three elements over -inf, f32::MIN, 0, 1 and +inf
ShortInputs == SeqsUpTo({NInf, F32_MIN, zero, one, PInf}, 3)

SoftmaxInputs ==
    ShortInputs \cup
    {MakeInput(len, s, p, Int2F(PeakVal)) :
        len \in 0..MaxN, s \in {"zero", "cyc", "ninf"}, p \in 0..MaxN}

MapInputs == {MakeInput(len, "cyc", 0, zero) : len \in 0..MaxN}

PadValues == {zero, Int2F(PeakVal + 1)}
UnaryOps == {"Exp", "Identity"}

\* self.op.eval(x) of the wrapped SimdUnaryOp
ApplyUnary(u, x) == IF u = "Exp" THEN vexp(x) ELSE x

Config(a, f, t, c) == [arch |-> a, avx512 |-> f, simd128 |-> t, cpu |-> c]

AllConfigs ==
    {Config(a, f, t, c) : a \in Archs, f \in BOOLEAN, t \in BOOLEAN,
                          c \in SUBSET CpuFeatures}

\* one platform per outcome of the ladder
KernelConfigs ==
    { Config("x86_64", TRUE, FALSE, CpuFeatures),
      Config("x86_64", FALSE, FALSE, CpuFeatures),
      Config("x86_64", TRUE, FALSE, {"avx2"}),
      Config("aarch64", FALSE, FALSE, {}),
      Config("wasm32", FALSE, TRUE, {}),
      Config("riscv64", FALSE, FALSE, {}) }

\* no normalize call is running
TextIdle ==
    /\ text = <<>>
    /\ normalizer = "none"
    /\ tpc = "idle"
    /\ normalized = <<>>
    /\ offsets = <<>>
    /\ stage = 0
    /\ stage_log = <<>>

InitWith(configs, softmaxInputs, mapInputs) ==
    /\ \E c \in configs :
          /\ arch = c.arch
          /\ feature_avx512 = c.avx512
          /\ target_feature_simd128 = c.simd128
          /\ cpu = c.cpu
    /\ \/ /\ op = "Softmax"
          /\ unary = "Exp"
          /\ input \in softmaxInputs
       \/ /\ op = "SimdMapOp"
          /\ unary \in UnaryOps
          /\ input \in mapInputs
    /\ in_place \in BOOLEAN
    /\ pad \in PadValues
    \* Softmax::new / new_mut, SimdMapOp::wrap: an uninitialized output
    \* slice of the input's length, or the input slice itself
    /\ dest = IF in_place THEN input ELSE [i \in 1..Len(input) |-> Uninit]
    /\ pc = "dispatch"
    /\ site = "none"
    /\ S = "none"
    /\ eval_count = 0
    /\ eval_types = {}
    /\ output = <<>>
    /\ result = <<>>
    /\ pos = 0
    /\ accum = <<>>
    /\ max_val = <<>>
    /\ prev_exp_sum = <<>>
    /\ exp_sum = <<>>
    /\ inv_exp_sum = <<>>
    /\ calls = NoCalls
    /\ writes = NoLog
    /\ reads = NoLog
    /\ hazard = FALSE
    /\ first_n_calls = <<>>
    /\ TextIdle

Init == InitWith(KernelConfigs, SoftmaxInputs, MapInputs)

(***************************************************************************)
(* SimdDispatcher::dispatch: the ladder.                                   *)
(***************************************************************************)
\* variant: the AVX-512 entry is compiled whatever the avx512 feature says
avx512_selected_any_build(a, f, c) == a = "x86_64" /\ is_avx512_supported(c)

\* the AVX-512 entry: compiled for x86_64 with the avx512 feature, taken
\* when the probe succeeds
avx512_selected(a, f, c) == a = "x86_64" /\ f /\ is_avx512_supported(c)

\* variant: the AVX2 entry is taken on avx2 alone
avx_selected_without_fma(a, c) ==
    a = "x86_64" /\ is_x86_feature_detected(c, "avx2")

\* the AVX2 entry: compiled for x86_64, taken when fma and avx2 are detected
avx_selected(a, c) ==
    /\ a = "x86_64"
    /\ is_x86_feature_detected(c, "fma")
    /\ is_x86_feature_detected(c, "avx2")

\* the WASM entry: compiled for wasm32 with simd128
wasm_selected(a, t) == a = "wasm32" /\ t

\* the NEON entry: compiled for aarch64
neon_selected(a) == a = "aarch64"

\* variant: the AVX2 entry does not return and control falls through
ReturnTargetFallThrough(st) == IF st = "simd_op_avx" THEN "wasm" ELSE "returned"

\* where control goes when the eval called from a ladder entry comes back:
\* every entry returns eval's result from dispatch
ReturnTarget(st) == "returned"

\* op.eval::<vt>() is entered from ladder entry st
EvalStart(vt, st) ==
    /\ eval_count' = eval_count + 1
    /\ eval_types' = eval_types \cup {vt}
    /\ S' = vt
    /\ site' = st
    /\ pos' = 0
    /\ calls' = NoCalls
    /\ writes' = NoLog
    /\ reads' = NoLog
    /\ first_n_calls' = <<>>
    /\ IF op = "Softmax"
       THEN \* simd_fold(src, S::splat(f32::MIN), ..) starts
            /\ pc' = "max"
            /\ accum' = splat(vt, F32_MIN)
       ELSE \* simd_map(src_dest, |x| self.op.eval(x)) starts
            /\ pc' = "map"
            /\ accum' = accum
    /\ UNCHANGED <<textvars, cfgvars, opvars, output, result, dest, hazard,
                   max_val, prev_exp_sum, exp_sum, inv_exp_sum>>

Skip(from, to) ==
    /\ pc = from
    /\ pc' = to
    /\ UNCHANGED <<textvars, cfgvars, opvars, site, S, eval_count, eval_types, output,
                   result, locvars, logvars, dest>>

Avx512Path ==
    /\ pc = "dispatch"
    /\ avx512_selected(arch, feature_avx512, cpu)
    /\ EvalStart("__m512", "simd_op_avx512")

Avx512Skip ==
    /\ ~avx512_selected(arch, feature_avx512, cpu)
    /\ Skip("dispatch", "avx")

AvxPath ==
    /\ pc = "avx"
    /\ avx_selected(arch, cpu)
    /\ EvalStart("__m256", "simd_op_avx")

AvxSkip ==
    /\ ~avx_selected(arch, cpu)
    /\ Skip("avx", "wasm")

WasmPath ==
    /\ pc = "wasm"
    /\ wasm_selected(arch, target_feature_simd128)
    /\ EvalStart("v128f", "wasm")

WasmSkip ==
    /\ ~wasm_selected(arch, target_feature_simd128)
    /\ Skip("wasm", "neon")

NeonPath ==
    /\ pc = "neon"
    /\ neon_selected(arch)
    /\ EvalStart("float32x4_t", "neon")

NeonSkip ==
    /\ ~neon_selected(arch)
    /\ Skip("neon", "fallback")

Fallback ==
    /\ pc = "fallback"
    /\ EvalStart("f32", "fallback")

\* eval has produced its result: dispatch returns it
Return ==
    /\ pc = "eval_ret"
    /\ pc' = ReturnTarget(site)
    /\ result' = output
    /\ UNCHANGED <<textvars, cfgvars, opvars, site, S, eval_count, eval_types, output,
                   locvars, logvars, dest>>

(***************************************************************************)
(* simd_fold and simd_map, one group per step.                             *)
(***************************************************************************)
Log(pass, log, entries) == [log EXCEPT ![pass] = log[pass] \o entries]

\* variant: a partial final group is handled by stepping back to the last
\* LEN elements of the slice
ChunkOverlapTail(p, len, vt) ==
    IF len - p >= LEN(vt) THEN [at |-> p, cnt |-> LEN(vt)]
    ELSE IF len >= LEN(vt) THEN [at |-> len - LEN(vt), cnt |-> LEN(vt)]
    ELSE [at |-> p, cnt |-> len - p]

\* the group handled when the pointer is at p in a slice of len elements:
\* its offset and its number of elements (LEN, or what is left)
Chunk(p, len, vt) ==
    [at |-> p, cnt |-> IF len - p >= LEN(vt) THEN LEN(vt) ELSE len - p]

\* simd_map's load of group c; unused lanes of a partial group get padval
MapLoad(xs, c, vt, padval) ==
    IF c.cnt >= LEN(vt) THEN load(xs, c.at, vt)
    ELSE load_partial(xs, c.at, vt, c.cnt, splat(vt, padval))

\* simd_fold's load of group c; unused lanes of a partial group get the
\* seed's lanes
FoldLoad(xs, c, vt, seed) ==
    IF c.cnt >= LEN(vt) THEN load(xs, c.at, vt)
    ELSE load_partial(xs, c.at, vt, c.cnt, seed)

\* variant: pass 3 maps over self.src_dest again instead of dest
PassSrcAlwaysSrcDest(pass) == src

\* the slice a pass of simd_map loads from
PassSrc(pass) == IF pass = "norm" THEN dest ELSE src

\* the pass loads from the slice it stores to
Aliased(pass) == pass = "norm" \/ in_place

\* simd_map stores the first c.cnt lanes of y for group c and moves on
MapStore(pass, y, c) ==
    /\ dest' = store(dest, c.at, y, c.cnt)
    /\ pos' = c.at + c.cnt
    /\ calls' = [calls EXCEPT ![pass] = calls[pass] + 1]
    /\ writes' = Log(pass, writes, StorePositions(c.at, c.cnt))
    /\ reads' = Log(pass, reads, StorePositions(c.at, c.cnt))
    /\ hazard' = (hazard \/ (Aliased(pass) /\
                     \E q \in Range(writes[pass]) : q >= c.at /\ q < c.at + c.cnt))

\* variant: the partial-group branch also runs once on a slice with no
\* elements left to process
TailGroupAtLeastOnce(at) ==
    pc = at /\ n - pos < LEN(S) /\ (n - pos > 0 \/ (n = 0 /\ calls[at] = 0))

FullGroup(at) == pc = at /\ n - pos >= LEN(S)
TailGroup(at) == pc = at /\ n - pos > 0 /\ n - pos < LEN(S)
PassEnd(at) == pc = at /\ n - pos = 0

(***************************************************************************)
(* Softmax::eval.                                                          *)
(***************************************************************************)
\* variant: the closure keeps the loaded group and drops the running maximum
MaxCombineDropsAccum(max, x) == x

\* pass 1, the closure |max, x| max.max(x)
MaxCombine(max, x) == vmax(max, x)

\* simd_fold on group c
MaxGroup(c) ==
    /\ accum' = MaxCombine(accum, FoldLoad(src, c, S, splat(S, F32_MIN)))
    /\ pos' = c.at + c.cnt
    /\ reads' = Log("max", reads, StorePositions(c.at, c.cnt))
    /\ calls' = [calls EXCEPT !["max"] = calls["max"] + 1]
    /\ UNCHANGED <<textvars, cfgvars, opvars, ctlvars, dest, writes, hazard, first_n_calls,
                   max_val, prev_exp_sum, exp_sum, inv_exp_sum>>

MaxFull == FullGroup("max") /\ MaxGroup(Chunk(pos, n, S))

MaxTail == TailGroup("max") /\ MaxGroup(Chunk(pos, n, S))

\* max_val.fold_splat(f32::MIN, |max, x| max.max(x)), then the locals of
\* pass 2 are set up and simd_map starts
MaxDone ==
    /\ PassEnd("max")
    /\ max_val' = fold_splat(accum, F32_MIN, "max")
    /\ prev_exp_sum' = vzero(S)
    /\ exp_sum' = vzero(S)
    /\ pos' = 0
    /\ pc' = "exp"
    /\ UNCHANGED <<textvars, cfgvars, opvars, site, S, eval_count, eval_types, output,
                   result, accum, inv_exp_sum, logvars, dest>>

\* pass 2, the value the closure returns: Exp::apply(x.sub(max_val))
ExpClosure(x, mv) == vexp(vsub(x, mv))

\* pass 2 on group c: the closure's updates and the store of y
ExpGroup(c) ==
    LET y == ExpClosure(MapLoad(PassSrc("exp"), c, S, pad), max_val) IN
    /\ prev_exp_sum' = exp_sum
    /\ exp_sum' = vadd(exp_sum, y)
    /\ MapStore("exp", y, c)
    /\ UNCHANGED <<textvars, cfgvars, opvars, ctlvars, accum, max_val, inv_exp_sum,
                   first_n_calls>>

ExpFull == FullGroup("exp") /\ ExpGroup(Chunk(pos, n, S))

ExpTail == TailGroup("exp") /\ ExpGroup(Chunk(pos, n, S))

\* variant: a full final group also counts as a ragged tail
RemainderOfFullGroup(len, vt) ==
    IF len % LEN(vt) = 0 THEN LEN(vt) ELSE len % LEN(vt)

\* dest.len() % S::LEN
Remainder(len, vt) == len % LEN(vt)

\* variant: the update for the final group is not undone
CorrectedSumNoUndo(vt, len, prev, cur) == cur

\* variant: the operands of blend are exchanged
CorrectedSumSwapped(vt, len, prev, cur) ==
    IF Remainder(len, vt) # 0
    THEN blend(cur, prev, first_n(vt, Remainder(len, vt)))
    ELSE cur

\* "Undo the last update to exp_sum for unused lanes"
CorrectedSum(vt, len, prev, cur) ==
    IF Remainder(len, vt) # 0
    THEN blend(prev, cur, first_n(vt, Remainder(len, vt)))
    ELSE cur

ExpDone ==
    /\ PassEnd("exp")
    /\ exp_sum' = CorrectedSum(S, Len(dest), prev_exp_sum, exp_sum)
    /\ first_n_calls' = IF Remainder(Len(dest), S) # 0
                        THEN Append(first_n_calls, Remainder(Len(dest), S))
                        ELSE first_n_calls
    /\ pc' = "exp_sum"
    /\ UNCHANGED <<textvars, cfgvars, opvars, site, S, eval_count, eval_types, output,
                   result, pos, accum, max_val, prev_exp_sum, inv_exp_sum,
                   calls, writes, reads, hazard, dest>>

\* variant: the reciprocal is taken lane by lane, without the horizontal sum
InvExpSumPerLane(vt, sum) == vdiv(vone(vt), sum)

\* S::one().div(exp_sum.fold_splat(0., |sum, x| sum + x))
InvExpSum(vt, sum) == vdiv(vone(vt), fold_splat(sum, zero, "sum"))

\* the horizontal sum and its reciprocal; simd_map over dest starts
SumFold ==
    /\ pc = "exp_sum"
    /\ inv_exp_sum' = InvExpSum(S, exp_sum)
    /\ pos' = 0
    /\ pc' = "norm"
    /\ UNCHANGED <<textvars, cfgvars, opvars, site, S, eval_count, eval_types, output,
                   result, accum, max_val, prev_exp_sum, exp_sum, logvars, dest>>

\* pass 3, the closure |x| x.mul(inv_exp_sum)
NormClosure(x, inv) == vmul(x, inv)

NormGroup(c) ==
    /\ MapStore("norm", NormClosure(MapLoad(PassSrc("norm"), c, S, pad), inv_exp_sum), c)
    /\ UNCHANGED <<textvars, cfgvars, opvars, ctlvars, accum, max_val, prev_exp_sum,
                   exp_sum, inv_exp_sum, first_n_calls>>

NormFull == FullGroup("norm") /\ NormGroup(Chunk(pos, n, S))

NormTail == TailGroup("norm") /\ NormGroup(Chunk(pos, n, S))

\* eval returns dest
EvalReturn(at) ==
    /\ PassEnd(at)
    /\ output' = dest
    /\ pc' = "eval_ret"
    /\ UNCHANGED <<textvars, cfgvars, opvars, site, S, eval_count, eval_types, result,
                   locvars, logvars, dest>>

NormDone == EvalReturn("norm")

(***************************************************************************)
(* SimdMapOp::eval.                                                        *)
(***************************************************************************)
MapClosure(u, x) == ApplyUnary(u, x)

MapGroup(c) ==
    /\ MapStore("map", MapClosure(unary, MapLoad(PassSrc("map"), c, S, pad)), c)
    /\ UNCHANGED <<textvars, cfgvars, opvars, ctlvars, accum, max_val, prev_exp_sum,
                   exp_sum, inv_exp_sum, first_n_calls>>

MapFull == FullGroup("map") /\ MapGroup(Chunk(pos, n, S))

MapTail == TailGroup("map") /\ MapGroup(Chunk(pos, n, S))

MapDone == EvalReturn("map")

(***************************************************************************)
(* The test oracle and Softmax::eval as a function of its input.           *)
(***************************************************************************)
RECURSIVE SeqFold(_, _, _, _)
\* xs.iter().fold(acc, f) from element i on
SeqFold(xs, i, acc, f) ==
    IF i > Len(xs) THEN acc ELSE SeqFold(xs, i + 1, Combine(f, acc, xs[i]), f)

\* tests::reference_softmax: max, subtract, exp, sum, divide, one element
\* at a time
reference_softmax(xs) ==
    LET max == SeqFold(xs, 1, F32_MIN, "max")
        ys == [i \in 1..Len(xs) |-> Exp(FSub(xs[i], max))]
        sum == SeqFold(ys, 1, zero, "sum")
    IN [i \in 1..Len(xs) |-> FDiv(ys[i], sum)]

RECURSIVE SimdFoldMax(_, _, _, _, _)
\* simd_fold(xs, seed, MaxCombine) from offset p on
SimdFoldMax(xs, p, vt, acc, seed) ==
    IF p >= Len(xs) THEN acc
    ELSE LET c == Chunk(p, Len(xs), vt) IN
         SimdFoldMax(xs, c.at + c.cnt, vt,
                     MaxCombine(acc, FoldLoad(xs, c, vt, seed)), seed)

RECURSIVE ExpPass(_, _, _, _, _, _, _, _)
\* pass 2 from offset p on, reading xs and storing to ds: the destination
\* and the two accumulators it leaves
ExpPass(xs, ds, p, vt, mv, prev, sum, padv) ==
    IF p >= Len(xs) THEN [dest |-> ds, prev |-> prev, sum |-> sum]
    ELSE LET c == Chunk(p, Len(xs), vt)
             y == ExpClosure(MapLoad(xs, c, vt, padv), mv)
         IN ExpPass(xs, store(ds, c.at, y, c.cnt), c.at + c.cnt, vt, mv,
                    sum, vadd(sum, y), padv)

RECURSIVE NormPass(_, _, _, _, _)
\* pass 3 from offset p on, over ds in place
NormPass(ds, p, vt, inv, padv) ==
    IF p >= Len(ds) THEN ds
    ELSE LET c == Chunk(p, Len(ds), vt)
             y == NormClosure(MapLoad(ds, c, vt, padv), inv)
         IN NormPass(store(ds, c.at, y, c.cnt), c.at + c.cnt, vt, inv, padv)

\* Softmax::new(xs, out) evaluated with vector type vt: what out holds
SoftmaxEval(xs, vt, padv) ==
    LET seed == splat(vt, F32_MIN)
        mv == fold_splat(SimdFoldMax(xs, 0, vt, seed, seed), F32_MIN, "max")
        e == ExpPass(xs, [i \in 1..Len(xs) |-> Uninit], 0, vt, mv,
                     vzero(vt), vzero(vt), padv)
        inv == InvExpSum(vt, CorrectedSum(vt, Len(xs), e.prev, e.sum))
    IN NormPass(e.dest, 0, vt, inv, padv)

(***************************************************************************)
(* Specifications.                                                         *)
(***************************************************************************)
Next ==
    \/ Avx512Path \/ Avx512Skip \/ AvxPath \/ AvxSkip
    \/ WasmPath \/ WasmSkip \/ NeonPath \/ NeonSkip \/ Fallback
    \/ MaxFull \/ MaxTail \/ MaxDone
    \/ ExpFull \/ ExpTail \/ ExpDone \/ SumFold
    \/ NormFull \/ NormTail \/ NormDone
    \/ MapFull \/ MapTail \/ MapDone
    \/ Return

\* the kernels on one platform per ladder outcome, over all inputs
Spec == Init /\ [][Next]_vars

\* every platform, over short inputs
InitDispatch ==
    InitWith(AllConfigs, {<<zero>>, <<one, zero>>}, {<<>>, <<one, zero>>})

DispatchSpec == InitDispatch /\ [][Next]_vars

(***************************************************************************)
(* Properties of dispatch.                                                 *)
(***************************************************************************)
\* the call is at a point where one of its steps applies: on the ladder, or
\* inside eval with the next group, the end of the pass or the return ahead
CanStep ==
    \/ pc \in {"dispatch", "avx", "wasm", "neon", "fallback", "exp_sum", "eval_ret"}
    \/ /\ pc \in Passes
       /\ (FullGroup(pc) \/ TailGroup(pc) \/ PassEnd(pc))

\* C1: on every platform one call of dispatch invokes op.eval exactly once,
\* for exactly one vector type, returns what that invocation returned, and
\* has no outcome but returning: eval never runs twice or for two types, a
\* call that has returned has run it once, and a call that has not returned
\* can always take its next step.
C1_EvalExactlyOnce ==
    /\ eval_count <= 1
    /\ Cardinality(eval_types) <= 1
    /\ (pc = "returned" =>
          /\ eval_count = 1
          /\ eval_types = {S}
          /\ result = output
          /\ result = dest)
    /\ (pc # "returned" => CanStep)

\* a call that went down the ladder to the AVX2 entry and returned
C1_Witness ==
    /\ pc = "returned"
    /\ site = "simd_op_avx"
    /\ eval_count = 1
    /\ Len(result) = 2

\* the vector type the ladder is specified to pick on a platform
LadderChoice(a, f, t, c) ==
    CASE a = "x86_64" ->
            IF f /\ is_avx512_supported(c) THEN "__m512"
            ELSE IF {"avx2", "fma"} \subseteq c THEN "__m256"
            ELSE "f32"
      [] a = "aarch64" -> "float32x4_t"
      [] a = "wasm32" -> IF t THEN "v128f" ELSE "f32"
      [] OTHER -> "f32"

LadderLanes(a, f, t, c) ==
    CASE a = "x86_64" ->
            IF f /\ is_avx512_supported(c) THEN 16
            ELSE IF {"avx2", "fma"} \subseteq c THEN 8
            ELSE 1
      [] a = "aarch64" -> 4
      [] a = "wasm32" -> IF t THEN 4 ELSE 1
      [] OTHER -> 1

\* C2: the vector type eval runs with is the highest-priority ladder entry
\* that is both built in and confirmed by the probe: 16 lanes (AVX-512),
\* else 8 lanes (AVX2 with FMA), else scalar on x86_64; 4 lanes on aarch64
\* and on wasm32 with simd128; scalar everywhere else.
C2_LadderPriority ==
    /\ (eval_count > 0 =>
          /\ S = LadderChoice(arch, feature_avx512, target_feature_simd128, cpu)
          /\ LEN(S) = LadderLanes(arch, feature_avx512, target_feature_simd128, cpu))
    /\ (pc = "returned" => eval_count > 0)

\* an AVX-512 build on a CPU without AVX-512 but with AVX2 and FMA ran at
\* 8 lanes
C2_Witness ==
    /\ pc = "returned"
    /\ arch = "x86_64"
    /\ feature_avx512
    /\ ~is_avx512_supported(cpu)
    /\ S = "__m256"
    /\ LEN(S) = 8

\* C3: a non-scalar vector type is only run when its extension was built in
\* and the CPU has every feature its code path is compiled with.
C3_SelectedIsSupported ==
    /\ (S = "__m512" =>
          /\ arch = "x86_64"
          /\ feature_avx512
          /\ {"avx512f", "avx512vl"} \subseteq cpu)
    /\ (S = "__m256" =>
          /\ arch = "x86_64"
          /\ {"avx2", "fma"} \subseteq cpu)
    /\ (S = "v128f" => arch = "wasm32" /\ target_feature_simd128)
    /\ (S = "float32x4_t" => arch = "aarch64")

\* a CPU with AVX-512 running a build without the avx512 feature ended up
\* on the AVX2 path
C3_Witness ==
    /\ pc = "returned"
    /\ arch = "x86_64"
    /\ ~feature_avx512
    /\ is_avx512_supported(cpu)
    /\ {"avx2", "fma"} \subseteq cpu
    /\ S = "__m256"

(***************************************************************************)
(* Properties of the softmax kernel.                                       *)
(***************************************************************************)
\* the largest element of a nonempty slice
TrueMax(xs) == CHOOSE m \in Range(xs) : \A x \in Range(xs) : ~FLess(m, x)

\* exp(xs[i] - m) for every element
ExpOf(xs, m) == [i \in 1..Len(xs) |-> Exp(FSub(xs[i], m))]

\* a Softmax call has returned from dispatch
SoftmaxReturned == pc = "returned" /\ op = "Softmax"

\* C4: for every input of length n >= 1 at every lane width the output is
\* exp(x[i] - m) / S with m the maximum of the n inputs and S the sum of
\* exp(x[j] - m) over exactly the n inputs, which is what the sequential
\* reference computes.
C4_SoftmaxMatchesReference ==
    (SoftmaxReturned /\ n >= 1) =>
        /\ Len(result) = n
        /\ result = reference_softmax(input)
        /\ \A i \in 1..n :
              result[i] = FDiv(ExpOf(input, TrueMax(input))[i],
                               SeqFold(ExpOf(input, TrueMax(input)), 1, zero, "sum"))

\* an 8-lane run over 11 elements (one full group, a tail of 3) whose
\* maximum sits in the tail and whose padding value is not zero
C4_Witness ==
    /\ SoftmaxReturned
    /\ LEN(S) = 8
    /\ n = 11
    /\ input[10] = Int2F(PeakVal)
    /\ input[1] = zero
    /\ input[2] = zero
    /\ pad # zero
    /\ FLess(result[1], result[10])
    /\ SeqFold(result, 1, zero, "sum") = one

\* the elements of ys that fall into lane j of a len-lane vector
LaneElems(ys, j, len) ==
    [k \in 1..(IF j > Len(ys) THEN 0 ELSE (Len(ys) - j) \div len + 1) |->
        ys[j + (k - 1) * len]]

\* their sum, accumulated from zero in index order
LaneSum(ys, j, len) == SeqFold(LaneElems(ys, j, len), 1, zero, "sum")

\* pass 2 has ended and the tail correction has been applied
SumCorrected == op = "Softmax" /\ pc = "exp_sum"

\* C5: after the tail correction lane j of the sum accumulator is the sum of
\* exp(x[i] - m) over the real elements i < n with i mod LEN = j: with a tail
\* of r elements, lanes below r include the tail group's value and lanes from
\* r on hold the accumulator from before the tail group, so padding lanes
\* contribute nothing; with r = 0 every lane is the plain running sum.
C5_TailCorrection ==
    SumCorrected =>
        LET m == max_val[1]
            ys == ExpOf(input, m)
            r == n % LEN(S)
        IN /\ \A j \in 1..LEN(S) : exp_sum[j] = LaneSum(ys, j, LEN(S))
           /\ (r # 0 =>
                 /\ \A j \in (r + 1)..LEN(S) : exp_sum[j] = prev_exp_sum[j]
                 /\ \A j \in 1..r :
                       exp_sum[j] = FAdd(prev_exp_sum[j], ys[n - r + j]))

\* in place, 4 lanes, 6 elements: lanes 0 and 1 took the tail group's
\* values, lanes 2 and 3 kept the sum of the first group although the
\* padding value exponentiates to something positive
C5_Witness ==
    /\ SumCorrected
    /\ in_place
    /\ LEN(S) = 4
    /\ n = 6
    /\ pad # zero
    /\ IsFin(input[1])
    /\ exp_sum[1] # prev_exp_sum[1]
    /\ exp_sum[3] = prev_exp_sum[3]
    /\ Exp(FSub(pad, max_val[1])) # zero

\* C6: at every selectable lane width the output equals the output of the
\* scalar (1-lane) evaluation of the same input, for every length, among
\* them LEN + 1.
C6_SameAsScalar ==
    SoftmaxReturned => result = SoftmaxEval(input, "f32", pad)

\* a 16-lane run over 17 elements: one full group and a remainder of one
C6_Witness ==
    /\ SoftmaxReturned
    /\ LEN(S) = 16
    /\ n = LEN(S) + 1
    /\ pad # zero
    /\ input[17] = Int2F(PeakVal)
    /\ result = SoftmaxEval(input, "f32", pad)
    /\ IsFin(result[17])

\* max_val holds the result of pass 1
MaxPassDone == op = "Softmax" /\ pc \in {"exp", "exp_sum", "norm", "eval_ret", "returned"}

\* C9 as stated: the max fold with seed f32::MIN yields the true maximum of
\* every nonempty input and the seed for the empty input.
C9_TrueMaxOfEveryInput ==
    MaxPassDone =>
        /\ (n >= 1 => max_val = splat(S, TrueMax(input)))
        /\ (n = 0 => max_val = splat(S, F32_MIN))

\* C9, amended: the max fold with seed f32::MIN yields the true maximum of
\* every nonempty NaN-free input that has an element not below f32::MIN (so
\* of every input of finite values), at every lane width; it yields the seed
\* for the empty input and for an input whose elements are all -inf.
C9_MaxOfInputOrSeed ==
    MaxPassDone =>
        /\ ((n >= 1 /\ \E i \in 1..n : ~FLess(input[i], F32_MIN)) =>
                max_val = splat(S, TrueMax(input)))
        /\ ((n = 0 \/ \A i \in 1..n : FLess(input[i], F32_MIN)) =>
                max_val = splat(S, F32_MIN))

\* 8 lanes, 9 elements, the maximum alone in the partial final group
C9_Witness ==
    /\ MaxPassDone
    /\ pc = "exp"
    /\ LEN(S) = 8
    /\ n = 9
    /\ input[9] = Int2F(PeakVal)
    /\ max_val = splat(S, Int2F(PeakVal))

(***************************************************************************)
(* Properties of the chunked primitives.                                   *)
(***************************************************************************)
\* the simd_map call of a pass has returned
PassFinished(p) ==
    CASE p = "map" -> op = "SimdMapOp" /\ pc \in {"eval_ret", "returned"}
      [] p = "exp" -> op = "Softmax" /\ pc \in {"exp_sum", "norm", "eval_ret", "returned"}
      [] p = "norm" -> op = "Softmax" /\ pc \in {"eval_ret", "returned"}
      [] OTHER -> FALSE

CeilDiv(a, b) == (a + b - 1) \div b

\* the positions 0, 1, .., k-1 in increasing order
Upto(k) == [j \in 1..k |-> j - 1]

\* C7: one simd_map call over n elements processes its groups in increasing
\* index order, calls the element function ceil(n / LEN) times, writes each
\* of the positions 0..n-1 exactly once and none from n on: a partial final
\* group stores only its real elements.
C7_MapWritesEachOnce ==
    /\ Len(dest) = n
    /\ \A p \in {"exp", "norm", "map"} :
          /\ writes[p] = Upto(Len(writes[p]))
          /\ Len(writes[p]) <= n
          /\ calls[p] = CeilDiv(Len(writes[p]), LEN(S))
          /\ (PassFinished(p) =>
                /\ writes[p] = Upto(n)
                /\ calls[p] = CeilDiv(n, LEN(S)))
    /\ ((PassFinished("map") /\ pc = "returned") =>
          \A i \in 1..n : result[i] = ApplyUnary(unary, <<input[i]>>)[1])

\* SimdUnaryOp::map_mut of Exp over 6 elements at 4 lanes: two calls, a
\* full group and a partial group of 2
C7_Witness ==
    /\ PassFinished("map")
    /\ pc = "returned"
    /\ unary = "Exp"
    /\ in_place
    /\ LEN(S) = 4
    /\ n = 6
    /\ calls["map"] = 2
    /\ writes["map"] = <<0, 1, 2, 3, 4, 5>>
    /\ result[6] # input[6]

\* C8: for an input of length 0 Softmax returns an empty output at every
\* lane width and does not fail: the element functions of the exponentiate
\* and normalize passes are never invoked and nothing is stored.
C8_EmptyInput ==
    (op = "Softmax" /\ n = 0) =>
        /\ calls["exp"] = 0
        /\ calls["norm"] = 0
        /\ \A p \in Passes : writes[p] = <<>>
        /\ (pc = "returned" => result = <<>>)
        /\ (pc # "returned" => CanStep)

\* the empty input at 16 lanes: the exp sum is 0, its reciprocal +inf, and
\* the call returns
C8_Witness ==
    /\ SoftmaxReturned
    /\ n = 0
    /\ LEN(S) = 16
    /\ exp_sum = vzero(S)
    /\ inv_exp_sum = splat(S, PInf)
    /\ result = <<>>

\* C10: Softmax::new_mut leaves in the buffer what Softmax::new writes to a
\* separate destination for the same input: pass 1 has read every element
\* before pass 2 stores any, and no group loads a position that an earlier
\* group of its pass has stored.
C10_InPlaceSameAsSeparate ==
    op = "Softmax" =>
        /\ ~hazard
        /\ (writes["exp"] # <<>> => Range(reads["max"]) = 0..(n - 1))
        /\ (pc = "returned" => result = SoftmaxEval(input, S, pad))

\* an in-place run at 4 lanes over 7 elements whose buffer no longer holds
\* the input
C10_Witness ==
    /\ SoftmaxReturned
    /\ in_place
    /\ LEN(S) = 4
    /\ n = 7
    /\ IsFin(input[1])
    /\ dest # input
    /\ result = dest
    /\ result = SoftmaxEval(input, S, pad)

\* C15: Softmax::eval builds a prefix mask only for a ragged tail: it calls
\* first_n at most once, only when n mod LEN # 0, with k = n mod LEN and
\* 0 < k < LEN; at one lane it never calls it.
C15_FirstNOnlyForRaggedTail ==
    /\ Len(first_n_calls) <= 1
    /\ first_n_calls # <<>> =>
          /\ op = "Softmax"
          /\ S \in VTypes
          /\ n % LEN(S) # 0
          /\ first_n_calls[1] = n % LEN(S)
          /\ 0 < first_n_calls[1]
          /\ first_n_calls[1] < LEN(S)
    /\ (S \in VTypes /\ LEN(S) = 1) => first_n_calls = <<>>
    /\ (S \in VTypes /\ op = "Softmax" /\ n % LEN(S) # 0
          /\ pc \in {"exp_sum", "norm", "eval_ret", "returned"}) =>
          Len(first_n_calls) = 1

\* a returned softmax at 8 lanes over 11 elements that asked for first_n(3)
C15_Witness ==
    /\ SoftmaxReturned
    /\ LEN(S) = 8
    /\ n = 11
    /\ first_n_calls = <<3>>

(***************************************************************************)
(* Text normalizers (rten-text/src/normalizers.rs).  A str is modelled as  *)
(* its sequence of chars, a char as its Unicode scalar value; lengths and  *)
(* offsets count bytes of the UTF-8 encoding, from 0.                      *)
(***************************************************************************)
MaxTextLen == 3
MaxStages == 2

\* the chars of the model's texts, patterns and replacement contents
SPACE == 32
DASH == 45
DIGIT_ONE == 49
CAPITAL_A == 65
CAPITAL_I == 73
SMALL_A == 97
SMALL_I == 105
CAPITAL_I_WITH_DOT_ABOVE == 304
COMBINING_DOT_ABOVE == 775
CIRCLED_DIGIT_ONE == 9312

\* char::len_utf8
len_utf8(ch) ==
    IF ch < 128 THEN 1 ELSE IF ch < 2048 THEN 2 ELSE IF ch < 65536 THEN 3 ELSE 4

\* the bytes of one char in a String
encode_utf8(ch) ==
    CASE len_utf8(ch) = 1 -> <<ch>>
      [] len_utf8(ch) = 2 -> <<192 + (ch \div 64), 128 + (ch % 64)>>
      [] len_utf8(ch) = 3 ->
            <<224 + (ch \div 4096), 128 + ((ch \div 64) % 64), 128 + (ch % 64)>>
      [] OTHER ->
            <<240 + (ch \div 262144), 128 + ((ch \div 4096) % 64),
              128 + ((ch \div 64) % 64), 128 + (ch % 64)>>

\* str::as_bytes
RECURSIVE as_bytes(_)
as_bytes(s) ==
    IF s = <<>> THEN <<>> ELSE encode_utf8(Head(s)) \o as_bytes(Tail(s))

\* str::len
str_len(s) == Len(as_bytes(s))

\* str::char_indices: pairs <<byte offset, char>>
RECURSIVE char_indices_from(_, _)
char_indices_from(s, at) ==
    IF s = <<>>
    THEN <<>>
    ELSE <<<<at, Head(s)>>>> \o char_indices_from(Tail(s), at + len_utf8(Head(s)))

\* variant: chars are numbered, as by chars().enumerate()
chars_enumerate(s) == [i \in 1..Len(s) |-> <<i - 1, s[i]>>]

char_indices(s) == char_indices_from(s, 0)

\* &s[a..b] for byte offsets a <= b on char boundaries
Slice(s, a, b) ==
    LET Inside(e) == a <= e[1] /\ e[1] < b
        sel == SelectSeq(char_indices(s), Inside)
    IN [i \in 1..Len(sel) |-> sel[i][2]]

\* a..b as a sequence
RangeSeq(a, b) == [i \in 1..(IF b > a THEN b - a ELSE 0) |-> a + i - 1]

\* std::iter::repeat(x).take(count)
Repeat(x, count) == [i \in 1..count |-> x]

(***************************************************************************)
(* Unicode data.  The tables cover the ASCII chars, the combining marks    *)
(* U+0300, U+0301, U+0307 and U+0308, U+0130 and U+2460, and every char    *)
(* these lowercase to, decompose into or compose into.                     *)
(***************************************************************************)
\* char::to_lowercase where it is not the ASCII letter rule
LowercaseTable ==
       192 :> <<224>> @@ 193 :> <<225>> @@ 196 :> <<228>> @@ 200 :> <<232>>
    @@ 201 :> <<233>> @@ 203 :> <<235>> @@ 204 :> <<236>> @@ 205 :> <<237>>
    @@ 207 :> <<239>> @@ 210 :> <<242>> @@ 211 :> <<243>> @@ 214 :> <<246>>
    @@ 217 :> <<249>> @@ 218 :> <<250>> @@ 220 :> <<252>> @@ 221 :> <<253>>
    @@ 262 :> <<263>> @@ 266 :> <<267>> @@ 278 :> <<279>> @@ 288 :> <<289>>
    @@ 304 :> <<105, 775>> @@ 313 :> <<314>> @@ 323 :> <<324>>
    @@ 340 :> <<341>> @@ 346 :> <<347>> @@ 376 :> <<255>> @@ 377 :> <<378>>
    @@ 379 :> <<380>> @@ 471 :> <<472>> @@ 475 :> <<476>> @@ 500 :> <<501>>
    @@ 504 :> <<505>> @@ 550 :> <<551>> @@ 558 :> <<559>> @@ 7682 :> <<7683>>
    @@ 7690 :> <<7691>> @@ 7710 :> <<7711>> @@ 7714 :> <<7715>>
    @@ 7718 :> <<7719>> @@ 7726 :> <<7727>> @@ 7728 :> <<7729>>
    @@ 7742 :> <<7743>> @@ 7744 :> <<7745>> @@ 7748 :> <<7749>>
    @@ 7764 :> <<7765>> @@ 7766 :> <<7767>> @@ 7768 :> <<7769>>
    @@ 7776 :> <<7777>> @@ 7780 :> <<7781>> @@ 7786 :> <<7787>>
    @@ 7808 :> <<7809>> @@ 7810 :> <<7811>> @@ 7812 :> <<7813>>
    @@ 7814 :> <<7815>> @@ 7818 :> <<7819>> @@ 7820 :> <<7821>>
    @@ 7822 :> <<7823>> @@ 7922 :> <<7923>>

\* the full canonical decomposition of the chars that have one
CanonicalTable ==
       192 :> <<65, 768>> @@ 193 :> <<65, 769>> @@ 196 :> <<65, 776>>
    @@ 200 :> <<69, 768>> @@ 201 :> <<69, 769>> @@ 203 :> <<69, 776>>
    @@ 204 :> <<73, 768>> @@ 205 :> <<73, 769>> @@ 207 :> <<73, 776>>
    @@ 210 :> <<79, 768>> @@ 211 :> <<79, 769>> @@ 214 :> <<79, 776>>
    @@ 217 :> <<85, 768>> @@ 218 :> <<85, 769>> @@ 220 :> <<85, 776>>
    @@ 221 :> <<89, 769>> @@ 224 :> <<97, 768>> @@ 225 :> <<97, 769>>
    @@ 228 :> <<97, 776>> @@ 232 :> <<101, 768>> @@ 233 :> <<101, 769>>
    @@ 235 :> <<101, 776>> @@ 236 :> <<105, 768>> @@ 237 :> <<105, 769>>
    @@ 239 :> <<105, 776>> @@ 242 :> <<111, 768>> @@ 243 :> <<111, 769>>
    @@ 246 :> <<111, 776>> @@ 249 :> <<117, 768>> @@ 250 :> <<117, 769>>
    @@ 252 :> <<117, 776>> @@ 253 :> <<121, 769>> @@ 255 :> <<121, 776>>
    @@ 262 :> <<67, 769>> @@ 263 :> <<99, 769>> @@ 266 :> <<67, 775>>
    @@ 267 :> <<99, 775>> @@ 278 :> <<69, 775>> @@ 279 :> <<101, 775>>
    @@ 288 :> <<71, 775>> @@ 289 :> <<103, 775>> @@ 304 :> <<73, 775>>
    @@ 313 :> <<76, 769>> @@ 314 :> <<108, 769>> @@ 323 :> <<78, 769>>
    @@ 324 :> <<110, 769>> @@ 340 :> <<82, 769>> @@ 341 :> <<114, 769>>
    @@ 346 :> <<83, 769>> @@ 347 :> <<115, 769>> @@ 376 :> <<89, 776>>
    @@ 377 :> <<90, 769>> @@ 378 :> <<122, 769>> @@ 379 :> <<90, 775>>
    @@ 380 :> <<122, 775>> @@ 471 :> <<85, 776, 769>>
    @@ 472 :> <<117, 776, 769>> @@ 475 :> <<85, 776, 768>>
    @@ 476 :> <<117, 776, 768>> @@ 500 :> <<71, 769>> @@ 501 :> <<103, 769>>
    @@ 504 :> <<78, 768>> @@ 505 :> <<110, 768>> @@ 550 :> <<65, 775>>
    @@ 551 :> <<97, 775>> @@ 558 :> <<79, 775>> @@ 559 :> <<111, 775>>
    @@ 7682 :> <<66, 775>> @@ 7683 :> <<98, 775>> @@ 7690 :> <<68, 775>>
    @@ 7691 :> <<100, 775>> @@ 7710 :> <<70, 775>> @@ 7711 :> <<102, 775>>
    @@ 7714 :> <<72, 775>> @@ 7715 :> <<104, 775>> @@ 7718 :> <<72, 776>>
    @@ 7719 :> <<104, 776>> @@ 7726 :> <<73, 776, 769>>
    @@ 7727 :> <<105, 776, 769>> @@ 7728 :> <<75, 769>>
    @@ 7729 :> <<107, 769>> @@ 7742 :> <<77, 769>> @@ 7743 :> <<109, 769>>
    @@ 7744 :> <<77, 775>> @@ 7745 :> <<109, 775>> @@ 7748 :> <<78, 775>>
    @@ 7749 :> <<110, 775>> @@ 7764 :> <<80, 769>> @@ 7765 :> <<112, 769>>
    @@ 7766 :> <<80, 775>> @@ 7767 :> <<112, 775>> @@ 7768 :> <<82, 775>>
    @@ 7769 :> <<114, 775>> @@ 7776 :> <<83, 775>> @@ 7777 :> <<115, 775>>
    @@ 7780 :> <<83, 769, 775>> @@ 7781 :> <<115, 769, 775>>
    @@ 7786 :> <<84, 775>> @@ 7787 :> <<116, 775>> @@ 7808 :> <<87, 768>>
    @@ 7809 :> <<119, 768>> @@ 7810 :> <<87, 769>> @@ 7811 :> <<119, 769>>
    @@ 7812 :> <<87, 776>> @@ 7813 :> <<119, 776>> @@ 7814 :> <<87, 775>>
    @@ 7815 :> <<119, 775>> @@ 7818 :> <<88, 775>> @@ 7819 :> <<120, 775>>
    @@ 7820 :> <<88, 776>> @@ 7821 :> <<120, 776>> @@ 7822 :> <<89, 775>>
    @@ 7823 :> <<121, 775>> @@ 7831 :> <<116, 776>> @@ 7922 :> <<89, 768>>
    @@ 7923 :> <<121, 768>>

\* the full compatibility decomposition where it differs from the canonical
CompatibleTable ==
       9312 :> <<49>>

\* the primary composite of a pair of chars
ComposeTable ==
       <<65, 768>> :> 192 @@ <<65, 769>> :> 193 @@ <<65, 775>> :> 550
    @@ <<65, 776>> :> 196 @@ <<66, 775>> :> 7682 @@ <<67, 769>> :> 262
    @@ <<67, 775>> :> 266 @@ <<68, 775>> :> 7690 @@ <<69, 768>> :> 200
    @@ <<69, 769>> :> 201 @@ <<69, 775>> :> 278 @@ <<69, 776>> :> 203
    @@ <<70, 775>> :> 7710 @@ <<71, 769>> :> 500 @@ <<71, 775>> :> 288
    @@ <<72, 775>> :> 7714 @@ <<72, 776>> :> 7718 @@ <<73, 768>> :> 204
    @@ <<73, 769>> :> 205 @@ <<73, 775>> :> 304 @@ <<73, 776>> :> 207
    @@ <<75, 769>> :> 7728 @@ <<76, 769>> :> 313 @@ <<77, 769>> :> 7742
    @@ <<77, 775>> :> 7744 @@ <<78, 768>> :> 504 @@ <<78, 769>> :> 323
    @@ <<78, 775>> :> 7748 @@ <<79, 768>> :> 210 @@ <<79, 769>> :> 211
    @@ <<79, 775>> :> 558 @@ <<79, 776>> :> 214 @@ <<80, 769>> :> 7764
    @@ <<80, 775>> :> 7766 @@ <<82, 769>> :> 340 @@ <<82, 775>> :> 7768
    @@ <<83, 769>> :> 346 @@ <<83, 775>> :> 7776 @@ <<84, 775>> :> 7786
    @@ <<85, 768>> :> 217 @@ <<85, 769>> :> 218 @@ <<85, 776>> :> 220
    @@ <<87, 768>> :> 7808 @@ <<87, 769>> :> 7810 @@ <<87, 775>> :> 7814
    @@ <<87, 776>> :> 7812 @@ <<88, 775>> :> 7818 @@ <<88, 776>> :> 7820
    @@ <<89, 768>> :> 7922 @@ <<89, 769>> :> 221 @@ <<89, 775>> :> 7822
    @@ <<89, 776>> :> 376 @@ <<90, 769>> :> 377 @@ <<90, 775>> :> 379
    @@ <<97, 768>> :> 224 @@ <<97, 769>> :> 225 @@ <<97, 775>> :> 551
    @@ <<97, 776>> :> 228 @@ <<98, 775>> :> 7683 @@ <<99, 769>> :> 263
    @@ <<99, 775>> :> 267 @@ <<100, 775>> :> 7691 @@ <<101, 768>> :> 232
    @@ <<101, 769>> :> 233 @@ <<101, 775>> :> 279 @@ <<101, 776>> :> 235
    @@ <<102, 775>> :> 7711 @@ <<103, 769>> :> 501 @@ <<103, 775>> :> 289
    @@ <<104, 775>> :> 7715 @@ <<104, 776>> :> 7719 @@ <<105, 768>> :> 236
    @@ <<105, 769>> :> 237 @@ <<105, 776>> :> 239 @@ <<107, 769>> :> 7729
    @@ <<108, 769>> :> 314 @@ <<109, 769>> :> 7743 @@ <<109, 775>> :> 7745
    @@ <<110, 768>> :> 505 @@ <<110, 769>> :> 324 @@ <<110, 775>> :> 7749
    @@ <<111, 768>> :> 242 @@ <<111, 769>> :> 243 @@ <<111, 775>> :> 559
    @@ <<111, 776>> :> 246 @@ <<112, 769>> :> 7765 @@ <<112, 775>> :> 7767
    @@ <<114, 769>> :> 341 @@ <<114, 775>> :> 7769 @@ <<115, 769>> :> 347
    @@ <<115, 775>> :> 7777 @@ <<116, 775>> :> 7787 @@ <<116, 776>> :> 7831
    @@ <<117, 768>> :> 249 @@ <<117, 769>> :> 250 @@ <<117, 776>> :> 252
    @@ <<119, 768>> :> 7809 @@ <<119, 769>> :> 7811 @@ <<119, 775>> :> 7815
    @@ <<119, 776>> :> 7813 @@ <<120, 775>> :> 7819 @@ <<120, 776>> :> 7821
    @@ <<121, 768>> :> 7923 @@ <<121, 769>> :> 253 @@ <<121, 775>> :> 7823
    @@ <<121, 776>> :> 255 @@ <<122, 769>> :> 378 @@ <<122, 775>> :> 380
    @@ <<207, 769>> :> 7726 @@ <<220, 768>> :> 475 @@ <<220, 769>> :> 471
    @@ <<239, 769>> :> 7727 @@ <<252, 768>> :> 476 @@ <<252, 769>> :> 472
    @@ <<346, 775>> :> 7780 @@ <<347, 775>> :> 7781

\* char::to_lowercase
to_lowercase(ch) ==
    IF ch \in DOMAIN LowercaseTable
    THEN LowercaseTable[ch]
    ELSE IF ch \in 65..90 THEN <<ch + 32>> ELSE <<ch>>

\* unicode_normalization::char::decompose_canonical: the chars handed to the
\* callback, in order
decompose_canonical(ch) ==
    IF ch \in DOMAIN CanonicalTable THEN CanonicalTable[ch] ELSE <<ch>>

\* unicode_normalization::char::decompose_compatible
decompose_compatible(ch) ==
    IF ch \in DOMAIN CompatibleTable
    THEN CompatibleTable[ch]
    ELSE decompose_canonical(ch)

\* unicode_normalization::char::compose: <<c>> for Some(c), <<>> for None
compose(a, b) ==
    IF <<a, b>> \in DOMAIN ComposeTable THEN <<ComposeTable[<<a, b>>]>> ELSE <<>>

\* UnicodeCategories::is_mark_nonspacing (the combining diacritical marks)
is_mark_nonspacing(ch) == ch \in 768..879

\* CharNormalizer::strip_accents
RECURSIVE strip_accents(_)
strip_accents(chars) ==
    IF chars = <<>>
    THEN <<>>
    ELSE LET Kept(d) == ~is_mark_nonspacing(d)
         IN SelectSeq(decompose_canonical(Head(chars)), Kept)
                \o strip_accents(Tail(chars))

\* CharNormalizer::lower_case
RECURSIVE lower_case(_)
lower_case(chars) ==
    IF chars = <<>>
    THEN <<>>
    ELSE to_lowercase(Head(chars)) \o lower_case(Tail(chars))

\* CharNormalizer::set_char
set_char(ch) == <<ch>>

\* what normalize returns: Ok((normalized, offsets)) or Err(RegexError)
Ok(str, offs) == [ok |-> TRUE, normalized |-> str, offsets |-> offs]
Err == [ok |-> FALSE, normalized |-> <<>>, offsets |-> <<>>]

\* BertOptions
is_noop(opts) == ~opts.lowercase /\ ~opts.strip_accents

\* the chars one input char becomes in Bert::normalize
BertChar(opts, ch) ==
    LET c0 == set_char(ch)
        c1 == IF opts.strip_accents THEN strip_accents(c0) ELSE c0
    IN IF opts.lowercase THEN lower_case(c1) ELSE c1

\* variant: one offset for each char pushed
CharsOffsetsPerChar(offset, chars) == Repeat(offset, Len(chars))

\* for each char pushed to normalized, offset is pushed ch.len_utf8() times
RECURSIVE CharsOffsets(_, _)
CharsOffsets(offset, chars) ==
    IF chars = <<>>
    THEN <<>>
    ELSE Repeat(offset, len_utf8(Head(chars))) \o CharsOffsets(offset, Tail(chars))

\* the loop of Bert::normalize over text.char_indices()
RECURSIVE BertLoop(_, _)
BertLoop(opts, cis) ==
    IF cis = <<>>
    THEN Ok(<<>>, <<>>)
    ELSE LET offset == Head(cis)[1]
             chars == BertChar(opts, Head(cis)[2])
             rest == BertLoop(opts, Tail(cis))
         IN Ok(chars \o rest.normalized,
               CharsOffsets(offset, chars) \o rest.offsets)

\* Bert::normalize
Bert_normalize(opts, t) ==
    IF is_noop(opts)
    THEN Ok(t, RangeSeq(0, str_len(t)))
    ELSE BertLoop(opts, char_indices(t))

(***************************************************************************)
(* Replace.  The regex is one of a few pattern shapes: a literal string,   *)
(* c+ and c* for a char c, the anchor $, and a pattern whose search ends   *)
(* with a runtime error.                                                   *)
(***************************************************************************)
Pat(kind, chars) == [kind |-> kind, chars |-> chars]

\* byte offsets a match can start or end at
Boundaries(t) == {e[1] : e \in Range(char_indices(t))} \cup {str_len(t)}

\* bytes of the run of char c in t from byte offset p
RECURSIVE RunLen(_, _, _)
RunLen(t, p, c) ==
    IF p < str_len(t) /\ Slice(t, p, p + len_utf8(c)) = <<c>>
    THEN len_utf8(c) + RunLen(t, p + len_utf8(c), c)
    ELSE 0

\* length in bytes of the match of the pattern that starts at p, -1 for none
MatchLenAt(pattern, t, p) ==
    CASE pattern.kind = "lit" ->
            IF /\ p + str_len(pattern.chars) <= str_len(t)
               /\ Slice(t, p, p + str_len(pattern.chars)) = pattern.chars
            THEN str_len(pattern.chars)
            ELSE -1
      [] pattern.kind = "plus" ->
            IF RunLen(t, p, pattern.chars[1]) > 0
            THEN RunLen(t, p, pattern.chars[1])
            ELSE -1
      [] pattern.kind = "star" -> RunLen(t, p, pattern.chars[1])
      [] pattern.kind = "end" -> IF p = str_len(t) THEN 0 ELSE -1
      [] OTHER -> -1

\* Regex::find_from_pos: the leftmost match at or after pos as <<start, end>>,
\* <<>> for none
find_from_pos(pattern, t, at) ==
    LET starts == {p \in Boundaries(t) : p >= at /\ MatchLenAt(pattern, t, p) >= 0}
    IN IF starts = {}
       THEN <<>>
       ELSE LET p == CHOOSE q \in starts : \A r \in starts : q <= r
            IN <<p, p + MatchLenAt(pattern, t, p)>>

\* the start of the char after byte offset i
next_utf8(t, i) ==
    IF i >= str_len(t) THEN i + 1 ELSE i + len_utf8(Slice(t, i, i + 1)[1])

\* Regex::find_iter: the matches the iterator yields; after an empty match
\* the search resumes one char on, and an empty match at the end of the
\* previous match is passed over (last_match = -1 for None)
RECURSIVE Matches_next(_, _, _, _)
Matches_next(pattern, t, last_end, last_match) ==
    IF last_end > str_len(t)
    THEN <<>>
    ELSE LET mat == find_from_pos(pattern, t, last_end)
         IN IF mat = <<>>
            THEN <<>>
            ELSE IF mat[1] = mat[2]
                 THEN IF mat[2] = last_match
                      THEN Matches_next(pattern, t, next_utf8(t, mat[2]), last_match)
                      ELSE <<mat>> \o
                           Matches_next(pattern, t, next_utf8(t, mat[2]), mat[2])
                 ELSE <<mat>> \o Matches_next(pattern, t, mat[2], mat[2])

find_iter(pattern, t) == Matches_next(pattern, t, 0, -1)

\* variant: the bytes of a replacement map to the end of the match
ReplacementOffsetsAtEnd(mat, content) == Repeat(mat[2], str_len(content))

\* offsets.extend(repeat(match_.range().start).take(self.content.len()))
ReplacementOffsets(mat, content) == Repeat(mat[1], str_len(content))

\* the loop of Replace::normalize over the matches, and the copy after the
\* last match
RECURSIVE ReplaceLoop(_, _, _, _)
ReplaceLoop(t, content, matches, last_match_end) ==
    IF matches = <<>>
    THEN Ok(Slice(t, last_match_end, str_len(t)),
            RangeSeq(last_match_end, str_len(t)))
    ELSE LET match_ == Head(matches)
             rest == ReplaceLoop(t, content, Tail(matches), match_[2])
         IN Ok(Slice(t, last_match_end, match_[1]) \o content \o rest.normalized,
               RangeSeq(last_match_end, match_[1])
                   \o ReplacementOffsets(match_, content) \o rest.offsets)

\* Replace::normalize
Replace_normalize(r, t) ==
    IF r.pattern.kind = "error"
    THEN Err
    ELSE ReplaceLoop(t, r.content, find_iter(r.pattern, t), 0)

(***************************************************************************)
(* Unicode.  A UnicodeBuf is the sequence of its <<char, offset>> pairs.   *)
(***************************************************************************)
\* UnicodeBuf::push
push(buf, ch, offset) == Append(buf, <<ch, offset>>)

\* variant: a char that does not compose goes in front of the one popped
push_compose_swapped(buf, ch, offset) ==
    IF buf = <<>>
    THEN push(buf, ch, offset)
    ELSE LET prev == buf[Len(buf)]
             popped == SubSeq(buf, 1, Len(buf) - 1)
             composed == compose(prev[1], ch)
         IN IF composed # <<>>
            THEN push(popped, composed[1], prev[2])
            ELSE push(push(popped, ch, offset), prev[1], prev[2])

\* UnicodeBuf::push_compose
push_compose(buf, ch, offset) ==
    IF buf = <<>>
    THEN push(buf, ch, offset)
    ELSE LET prev == buf[Len(buf)]
             popped == SubSeq(buf, 1, Len(buf) - 1)
             composed == compose(prev[1], ch)
         IN IF composed # <<>>
            THEN push(popped, composed[1], prev[2])
            ELSE push(push(popped, prev[1], prev[2]), ch, offset)

\* the callback applied to each char of a decomposition
RECURSIVE PushAll(_, _, _, _)
PushAll(buf, chars, offset, composing) ==
    IF chars = <<>>
    THEN buf
    ELSE PushAll(IF composing
                 THEN push_compose(buf, Head(chars), offset)
                 ELSE push(buf, Head(chars), offset),
                 Tail(chars), offset, composing)

\* one iteration of the loop of Unicode::normalize
UnicodeStep(form, buf, offset, ch) ==
    CASE form = "Nfc" -> push_compose(buf, ch, offset)
      [] form = "Nfd" -> PushAll(buf, decompose_canonical(ch), offset, FALSE)
      [] form = "Nfkc" -> PushAll(buf, decompose_compatible(ch), offset, TRUE)
      [] form = "Nfkd" -> PushAll(buf, decompose_compatible(ch), offset, FALSE)

RECURSIVE UnicodeLoop(_, _, _)
UnicodeLoop(form, buf, cis) ==
    IF cis = <<>>
    THEN buf
    ELSE UnicodeLoop(form, UnicodeStep(form, buf, Head(cis)[1], Head(cis)[2]),
                     Tail(cis))

\* UnicodeBuf::into_string_with_byte_offsets
RECURSIVE into_string_with_byte_offsets(_)
into_string_with_byte_offsets(buf) ==
    IF buf = <<>>
    THEN Ok(<<>>, <<>>)
    ELSE LET rest == into_string_with_byte_offsets(Tail(buf))
         IN Ok(<<Head(buf)[1]>> \o rest.normalized,
               Repeat(Head(buf)[2], len_utf8(Head(buf)[1])) \o rest.offsets)

\* Unicode::normalize
Unicode_normalize(form, t) ==
    into_string_with_byte_offsets(UnicodeLoop(form, <<>>, char_indices(t)))

(***************************************************************************)
(* Normalizers and Sequence.                                               *)
(***************************************************************************)
Bert(lc, sa) == [kind |-> "Bert", lowercase |-> lc, strip_accents |-> sa]

Replace(pattern, content) ==
    [kind |-> "Replace", pattern |-> pattern, content |-> content]

Unicode(form) == [kind |-> "Unicode", form |-> form]

Sequence(normalizers) == [kind |-> "Sequence", normalizers |-> normalizers]

\* Normalizer::normalize of a normalizer other than Sequence
Normalize(nz, t) ==
    CASE nz.kind = "Bert" -> Bert_normalize(nz, t)
      [] nz.kind = "Replace" -> Replace_normalize(nz, t)
      [] nz.kind = "Unicode" -> Unicode_normalize(nz.form, t)

\* variant: the map of the latest stage is kept as it is
ComposeOffsetsLastStage(offs, next_offsets) == next_offsets

\* *offset = offsets[*offset] for each offset of next_offsets
ComposeOffsets(offs, next_offsets) ==
    [i \in 1..Len(next_offsets) |-> offs[next_offsets[i] + 1]]

\* offsets[*offset] panics: the index is out of bounds
IndexOutOfBounds(offs, next_offsets) ==
    \E i \in 1..Len(next_offsets) : next_offsets[i] >= Len(offs)

Alphabet ==
    {SPACE, CAPITAL_A, CAPITAL_I, CAPITAL_I_WITH_DOT_ABOVE, COMBINING_DOT_ABOVE,
     CIRCLED_DIGIT_ONE}

Texts == SeqsUpTo(Alphabet, MaxTextLen)

Forms == {"Nfc", "Nfd", "Nfkc", "Nfkd"}

Patterns ==
    {Pat("lit", <<SPACE>>), Pat("lit", <<SPACE, SPACE>>),
     Pat("lit", <<CAPITAL_I_WITH_DOT_ABOVE>>), Pat("plus", <<SPACE>>),
     Pat("star", <<SPACE>>), Pat("end", <<>>), Pat("error", <<>>)}

Contents == {<<>>, <<DASH>>, <<DASH, CAPITAL_I_WITH_DOT_ABOVE>>}

BertNormalizers == {Bert(l, s) : l \in BOOLEAN, s \in BOOLEAN}
ReplaceNormalizers == {Replace(p, c) : p \in Patterns, c \in Contents}
UnicodeNormalizers == {Unicode(f) : f \in Forms}

\* the normalizers a Sequence of the model is made of
StageNormalizers ==
    {Bert(TRUE, TRUE), Unicode("Nfc"), Unicode("Nfd"),
     Replace(Pat("plus", <<SPACE>>), <<DASH, CAPITAL_I_WITH_DOT_ABOVE>>),
     Replace(Pat("end", <<>>), <<DASH>>),
     Replace(Pat("error", <<>>), <<>>)}

Sequences == {Sequence(l) : l \in SeqsUpTo(StageNormalizers, MaxStages)}

Normalizers ==
    BertNormalizers \cup ReplaceNormalizers \cup UnicodeNormalizers \cup Sequences

\* no kernel is running
KernelIdle ==
    /\ arch = "none"
    /\ feature_avx512 = FALSE
    /\ target_feature_simd128 = FALSE
    /\ cpu = {}
    /\ op = "none"
    /\ unary = "none"
    /\ input = <<>>
    /\ in_place = FALSE
    /\ pad = zero
    /\ dest = <<>>
    /\ pc = "idle"
    /\ site = "none"
    /\ S = "none"
    /\ eval_count = 0
    /\ eval_types = {}
    /\ output = <<>>
    /\ result = <<>>
    /\ pos = 0
    /\ accum = <<>>
    /\ max_val = <<>>
    /\ prev_exp_sum = <<>>
    /\ exp_sum = <<>>
    /\ inv_exp_sum = <<>>
    /\ calls = NoCalls
    /\ writes = NoLog
    /\ reads = NoLog
    /\ hazard = FALSE
    /\ first_n_calls = <<>>

\* normalizer.normalize(text) has been called
InitText ==
    /\ KernelIdle
    /\ text \in Texts
    /\ normalizer \in Normalizers
    /\ tpc = "call"
    /\ normalized = <<>>
    /\ offsets = <<>>
    /\ stage = 0
    /\ stage_log = <<>>

\* a normalizer other than Sequence returns
Returns(kind) ==
    /\ tpc = "call"
    /\ normalizer.kind = kind
    /\ LET r == Normalize(normalizer, text)
       IN /\ normalized' = r.normalized
          /\ offsets' = r.offsets
          /\ tpc' = IF r.ok THEN "ok" ELSE "err"
    /\ UNCHANGED <<kernelvars, text, normalizer, stage, stage_log>>

BertNormalize == Returns("Bert")

ReplaceNormalize == Returns("Replace")

UnicodeNormalize == Returns("Unicode")

\* Sequence::normalize up to its loop
SequenceStart ==
    /\ tpc = "call"
    /\ normalizer.kind = "Sequence"
    /\ normalized' = text
    /\ offsets' = RangeSeq(0, str_len(text))
    /\ stage' = 1
    /\ tpc' = "loop"
    /\ UNCHANGED <<kernelvars, text, normalizer, stage_log>>

\* one iteration of the loop of Sequence::normalize: the stage fails, or the
\* lookup of one of its offsets panics, or its output replaces the string
\* and the composed map replaces the offsets
SequenceStage ==
    /\ tpc = "loop"
    /\ stage <= Len(normalizer.normalizers)
    /\ LET r == Normalize(normalizer.normalizers[stage], normalized)
       IN /\ stage_log' = Append(stage_log, r)
          /\ IF ~r.ok
             THEN /\ tpc' = "err"
                  /\ UNCHANGED <<normalized, offsets, stage>>
             ELSE IF IndexOutOfBounds(offsets, r.offsets)
             THEN /\ tpc' = "panic"
                  /\ UNCHANGED <<normalized, offsets, stage>>
             ELSE /\ normalized' = r.normalized
                  /\ offsets' = ComposeOffsets(offsets, r.offsets)
                  /\ stage' = stage + 1
                  /\ tpc' = "loop"
    /\ UNCHANGED <<kernelvars, text, normalizer>>

\* Sequence::normalize returns Ok((normalized, offsets))
SequenceReturn ==
    /\ tpc = "loop"
    /\ stage > Len(normalizer.normalizers)
    /\ tpc' = "ok"
    /\ UNCHANGED <<kernelvars, text, normalizer, normalized, offsets, stage,
                   stage_log>>

NextText ==
    \/ BertNormalize \/ ReplaceNormalize \/ UnicodeNormalize
    \/ SequenceStart \/ SequenceStage \/ SequenceReturn

\* every normalizer of the model on every text of the model
TextSpec == InitText /\ [][NextText]_vars

\* normalize has returned Ok
Succeeded == tpc = "ok"

(***************************************************************************)
(* Properties of the normalizers.                                          *)
(***************************************************************************)
\* the results of the stages a Sequence has run
StageResults == {stage_log[k] : k \in 1..Len(stage_log)}

\* C11: a successful normalize, of Bert, Replace, Unicode or Sequence and of
\* each stage of a Sequence, returns one offset per byte of the normalized
\* string.
C11_OneOffsetPerByte ==
    /\ Succeeded => Len(offsets) = Len(as_bytes(normalized))
    /\ \A r \in StageResults : r.ok => Len(r.offsets) = Len(as_bytes(r.normalized))

\* Nfd of a two-byte and a three-byte char: three chars in six bytes from
\* two chars in five
C11_Witness ==
    /\ Succeeded
    /\ normalizer = Unicode("Nfd")
    /\ text = <<CAPITAL_I_WITH_DOT_ABOVE, CIRCLED_DIGIT_ONE>>
    /\ normalized = <<CAPITAL_I, COMBINING_DOT_ABOVE, CIRCLED_DIGIT_ONE>>
    /\ str_len(text) = 5
    /\ Len(normalized) = 3
    /\ offsets = <<0, 0, 0, 2, 2, 2>>

\* bytes the output has gained over the input once the first k matches are
\* replaced
RECURSIVE Shift(_, _, _)
Shift(matches, content, k) ==
    IF k = 0
    THEN 0
    ELSE Shift(matches, content, k - 1)
             + str_len(content) - (matches[k][2] - matches[k][1])

\* C12: Replace::normalize returns the text with each match, left to right
\* and non-overlapping, replaced by the content; a byte copied from outside
\* the matches maps to its own offset in the text, a byte of an inserted
\* replacement to the start of the match replaced, and a text without a
\* match comes back unchanged with offsets 0..text.len().
C12_ReplaceOffsets ==
    (Succeeded /\ normalizer.kind = "Replace") =>
        LET matches == find_iter(normalizer.pattern, text)
            content == as_bytes(normalizer.content)
            from == as_bytes(text)
            to == as_bytes(normalized)
            MatchesBefore(p) ==
                Cardinality({k \in 1..Len(matches) : matches[k][2] <= p})
            Matched(p) ==
                \E k \in 1..Len(matches) : matches[k][1] <= p /\ p < matches[k][2]
        IN /\ \A k \in 1..(Len(matches) - 1) : matches[k][2] <= matches[k + 1][1]
           /\ Len(to) = Len(from) + Shift(matches, normalizer.content, Len(matches))
           /\ \A k \in 1..Len(matches) : \A j \in 1..Len(content) :
                 LET q == matches[k][1] + Shift(matches, normalizer.content, k - 1) + j
                 IN to[q] = content[j] /\ offsets[q] = matches[k][1]
           /\ \A p \in 0..(Len(from) - 1) :
                 ~Matched(p) =>
                    LET q == p + Shift(matches, normalizer.content, MatchesBefore(p)) + 1
                    IN to[q] = from[p + 1] /\ offsets[q] = p
           /\ matches = <<>> =>
                 normalized = text /\ offsets = RangeSeq(0, str_len(text))

\* a run of spaces after a two-byte char replaced by a three-byte content
C12_Witness ==
    /\ Succeeded
    /\ normalizer = Replace(Pat("plus", <<SPACE>>), <<DASH, CAPITAL_I_WITH_DOT_ABOVE>>)
    /\ text = <<CAPITAL_I_WITH_DOT_ABOVE, SPACE, SPACE>>
    /\ find_iter(normalizer.pattern, text) = <<<<2, 4>>>>
    /\ normalized = <<CAPITAL_I_WITH_DOT_ABOVE, DASH, CAPITAL_I_WITH_DOT_ABOVE>>
    /\ offsets = <<0, 1, 2, 2, 2>>

\* the string stage k of the running Sequence was applied to
StageInput(k) == IF k = 1 THEN text ELSE stage_log[k - 1].normalized

\* the byte offset of the original text that byte b of the output of stage k
\* comes from, following the maps of stages k, k - 1, ..., 1
RECURSIVE Origin(_, _, _)
Origin(log, k, b) ==
    IF k = 0 THEN b ELSE Origin(log, k - 1, log[k].offsets[b + 1])

\* C13: Sequence::normalize applies its normalizers in list order, each to
\* the output of the one before, and returns the last output with the
\* composition of the stages' offset maps, which are offsets into the
\* original text; an empty Sequence returns the text with offsets
\* 0..text.len().
C13_SequenceComposes ==
    (Succeeded /\ normalizer.kind = "Sequence") =>
        LET count == Len(normalizer.normalizers)
        IN /\ Len(stage_log) = count
           /\ \A k \in 1..count :
                 stage_log[k] = Normalize(normalizer.normalizers[k], StageInput(k))
           /\ normalized = StageInput(count + 1)
           /\ Len(offsets) = str_len(normalized)
           /\ \A i \in 1..Len(offsets) :
                 /\ offsets[i] = Origin(stage_log, count, i - 1)
                 /\ offsets[i] < str_len(text)
           /\ count = 0 =>
                 normalized = text /\ offsets = RangeSeq(0, str_len(text))

\* Nfd, then lowercase and strip accents: the second stage maps its second
\* byte to offset 3 of the decomposed string, the Sequence to offset 2 of
\* the text
C13_Witness ==
    /\ Succeeded
    /\ normalizer = Sequence(<<Unicode("Nfd"), Bert(TRUE, TRUE)>>)
    /\ text = <<CAPITAL_I_WITH_DOT_ABOVE, CAPITAL_A>>
    /\ stage_log[1].normalized = <<CAPITAL_I, COMBINING_DOT_ABOVE, CAPITAL_A>>
    /\ stage_log[2].offsets = <<0, 3>>
    /\ normalized = <<SMALL_I, SMALL_A>>
    /\ offsets = <<0, 2>>

\* byte offset in t at which its j-th char starts
CharStart(t, j) == str_len(SubSeq(t, 1, j - 1))

\* bytes Bert::normalize has pushed before it reaches the j-th char of t
RECURSIVE BertOutStart(_, _, _)
BertOutStart(opts, t, j) ==
    IF j = 1
    THEN 0
    ELSE BertOutStart(opts, t, j - 1) + str_len(BertChar(opts, t[j - 1]))

\* C14: with lowercase or strip_accents on, every byte Bert::normalize
\* produces from the input char that starts at byte offset o maps to o,
\* however many chars or bytes that char becomes; with both off the text
\* comes back unchanged with offsets 0..text.len().
C14_BertOffsets ==
    (Succeeded /\ normalizer.kind = "Bert") =>
        IF ~normalizer.lowercase /\ ~normalizer.strip_accents
        THEN normalized = text /\ offsets = RangeSeq(0, str_len(text))
        ELSE /\ Len(offsets) = BertOutStart(normalizer, text, Len(text) + 1)
             /\ \A j \in 1..Len(text) :
                   LET produced == as_bytes(BertChar(normalizer, text[j]))
                       at == BertOutStart(normalizer, text, j)
                   IN \A b \in 1..Len(produced) :
                         /\ as_bytes(normalized)[at + b] = produced[b]
                         /\ offsets[at + b] = CharStart(text, j)

\* lowercase of a one-byte char, a two-byte char that becomes two chars in
\* three bytes, and a three-byte char
C14_Witness ==
    /\ Succeeded
    /\ normalizer = Bert(TRUE, FALSE)
    /\ text = <<CAPITAL_A, CAPITAL_I_WITH_DOT_ABOVE, CIRCLED_DIGIT_ONE>>
    /\ normalized = <<SMALL_A, SMALL_I, COMBINING_DOT_ABOVE, CIRCLED_DIGIT_ONE>>
    /\ offsets = <<0, 1, 1, 1, 3, 3, 3>>

\* C16: every offset that Bert, Replace or Unicode normalize(text) returns
\* is a byte index of text, below text.len(), for every text, pattern and
\* content, patterns that match the empty string included; so the lookup
\* offsets[*offset] of Sequence::normalize never goes out of bounds.
C16_OffsetsAreByteIndices ==
    /\ (Succeeded /\ normalizer.kind \in {"Bert", "Replace", "Unicode"}) =>
          \A i \in 1..Len(offsets) : offsets[i] < str_len(text)
    /\ tpc # "panic"

\* C17: the offset map every normalizer returns is non-decreasing: that of
\* Bert, Replace and Unicode in every mode, of each stage of a Sequence and
\* of the Sequence itself.
C17_OffsetsNonDecreasing ==
    LET NonDecreasing(offs) == \A i \in 1..(Len(offs) - 1) : offs[i] <= offs[i + 1]
    IN /\ Succeeded => NonDecreasing(offsets)
       /\ \A r \in StageResults : r.ok => NonDecreasing(r.offsets)

\* Nfc composes the first two chars, lowercase with strip_accents shortens
\* the result: the composed map steps from 0 to 3
C17_Witness ==
    /\ Succeeded
    /\ normalizer = Sequence(<<Unicode("Nfc"), Bert(TRUE, TRUE)>>)
    /\ text = <<CAPITAL_I, COMBINING_DOT_ABOVE, CAPITAL_A>>
    /\ stage_log[1].normalized = <<CAPITAL_I_WITH_DOT_ABOVE, CAPITAL_A>>
    /\ stage_log[1].offsets = <<0, 0, 3>>
    /\ stage_log[2].offsets = <<0, 2>>
    /\ offsets = <<0, 3>>

====
